---- MODULE Spec2Model ----
(***************************************************************************)
(* Model of the Printful account client (PrintfulAcountClient) and of the  *)
(* mockup generator API (MockupGeneratorAPI): every implemented endpoint   *)
(* method builds one request, awaits fetch, awaits response.json(),        *)
(* destructures the {result, code, error, paging} envelope and returns a   *)
(* normalized object.                                                      *)
(*                                                                         *)
(* JavaScript values are tagged tuples, so that values of different        *)
(* JavaScript types can be compared: <<"undefined">>, <<"null">>,          *)
(* <<"bool", b>>, <<"num", n>>, <<"str", s>>, <<"arr", <<v1, ...>>>> and   *)
(* <<"obj", << <<key, value>>, ... >>>> (properties in insertion order).   *)
(* URLs and bodies are strings, built by concatenation as the code does.   *)
(***************************************************************************)
EXTENDS Integers, Sequences, FiniteSets, TLC

VARIABLES
    auth,       \* the argument the constructor received
    origin,     \* PrintfulAcountClient.origin
    headers,    \* PrintfulAcountClient.headers
    mockup,     \* the MockupGeneratorAPI instance: its headers and origin
    calls       \* the endpoint calls of the caller, by call slot

vars == <<auth, origin, headers, mockup, calls>>

----------------------------------------------------------------------------
(* JavaScript values *)

Undefined == <<"undefined">>
Null      == <<"null">>
Bool(b)   == <<"bool", b>>
Num(n)    == <<"num", n>>
Str(s)    == <<"str", s>>
Arr(es)   == <<"arr", es>>
Obj(ps)   == <<"obj", ps>>

EmptyObj == Obj(<<>>)
EmptyArr == Arr(<<>>)

Tag(v) == v[1]

Nullish(v) == Tag(v) \in {"undefined", "null"}

\* o.k: the value of the last property named k, undefined when o has none
\* (or is not an object).
Get(o, k) ==
    IF Tag(o) = "obj" /\ \E i \in 1..Len(o[2]) : o[2][i][1] = k
    THEN LET i == CHOOSE j \in 1..Len(o[2]) :
                    /\ o[2][j][1] = k
                    /\ \A h \in (j+1)..Len(o[2]) : o[2][h][1] # k
         IN  o[2][i][2]
    ELSE Undefined

\* ToBoolean(v): the truthiness the operators ||, && and ?: test.
Truthy(v) ==
    CASE Tag(v) = "undefined" -> FALSE
      [] Tag(v) = "null"      -> FALSE
      [] Tag(v) = "bool"      -> v[2]
      [] Tag(v) = "num"       -> v[2] # 0
      [] Tag(v) = "str"       -> v[2] # ""
      [] OTHER                -> TRUE

\* A default parameter value (offset=0): taken when the argument is undefined.
Default(v, d) == IF v = Undefined THEN d ELSE v

Digit(d) == SubSeq("0123456789", d + 1, d + 1)

RECURSIVE NatText(_)
NatText(n) == IF n < 10 THEN Digit(n) ELSE NatText(n \div 10) \o Digit(n % 10)

\* Number::toString of an integer.
NumText(n) == IF n < 0 THEN "-" \o NatText(0 - n) ELSE NatText(n)

RECURSIVE JoinText(_, _)
RECURSIVE JsToString(_)
\* ToString(v), as string concatenation ("..." + v) applies it.
JsToString(v) ==
    CASE Tag(v) = "undefined" -> "undefined"
      [] Tag(v) = "null"      -> "null"
      [] Tag(v) = "bool"      -> IF v[2] THEN "true" ELSE "false"
      [] Tag(v) = "num"       -> NumText(v[2])
      [] Tag(v) = "str"       -> v[2]
      [] Tag(v) = "arr"       -> JoinText(v[2], 1)
      [] OTHER                -> "[object Object]"

\* Array.prototype.join(","): undefined and null elements give "".
JoinText(es, i) ==
    IF i > Len(es) THEN ""
    ELSE (IF Nullish(es[i]) THEN "" ELSE JsToString(es[i]))
         \o (IF i < Len(es) THEN "," ELSE "")
         \o JoinText(es, i + 1)

\* left + right where left is a string.
Concat(s, v) == s \o JsToString(v)

\* code >= 400: ToNumber(code) compared with 400; NaN compares false.
ErrorStatus == 400

IsDigits(s) == \A i \in 1..Len(s) : SubSeq(s, i, i) \in
                  {"0", "1", "2", "3", "4", "5", "6", "7", "8", "9"}

DigitValue(ch) == CHOOSE d \in 0..9 : Digit(d) = ch

\* StringToNumber of a string of decimal digits ("" is 0).
RECURSIVE DigitsValue(_, _)
DigitsValue(s, n) ==
    IF n = 0 THEN 0
    ELSE 10 * DigitsValue(s, n - 1) + DigitValue(SubSeq(s, n, n))

\* v >= n for the values an envelope's code takes here: a number, a string
\* (digits convert to their number, other text to NaN), null (0), a
\* boolean (0 or 1), undefined (NaN).
GE(v, n) ==
    CASE Tag(v) = "num"  -> v[2] >= n
      [] Tag(v) = "str"  -> IsDigits(v[2]) /\ DigitsValue(v[2], Len(v[2])) >= n
      [] Tag(v) = "null" -> 0 >= n
      [] Tag(v) = "bool" -> (IF v[2] THEN 1 ELSE 0) >= n
      [] OTHER           -> FALSE

----------------------------------------------------------------------------
(* Strings *)

CharAt(s, i) == SubSeq(s, i, i)

Contains(s, sub) ==
    \E i \in 1..(Len(s) - Len(sub) + 1) : SubSeq(s, i, i + Len(sub) - 1) = sub

\* JSON.stringify's quoting of a string: " and \ are escaped.
RECURSIVE QuoteChars(_, _)
QuoteChars(s, i) ==
    IF i > Len(s) THEN ""
    ELSE (CASE CharAt(s, i) = "\"" -> "\\\""
            [] CharAt(s, i) = "\\" -> "\\\\"
            [] OTHER               -> CharAt(s, i))
         \o QuoteChars(s, i + 1)

Quote(s) == "\"" \o QuoteChars(s, 1) \o "\""

RECURSIVE StringifyProps(_, _, _)
RECURSIVE StringifyElems(_, _)
RECURSIVE Stringify(_)
\* JSON.stringify(v) for a value that is not undefined.
Stringify(v) ==
    CASE Tag(v) = "null" -> "null"
      [] Tag(v) = "bool" -> IF v[2] THEN "true" ELSE "false"
      [] Tag(v) = "num"  -> NumText(v[2])
      [] Tag(v) = "str"  -> Quote(v[2])
      [] Tag(v) = "arr"  -> "[" \o StringifyElems(v[2], 1) \o "]"
      [] Tag(v) = "obj"  -> "{" \o StringifyProps(v[2], 1, TRUE) \o "}"
      [] OTHER           -> "null"

\* Array elements: undefined is written as null.
StringifyElems(es, i) ==
    IF i > Len(es) THEN ""
    ELSE Stringify(es[i]) \o (IF i < Len(es) THEN "," ELSE "")
         \o StringifyElems(es, i + 1)

\* Object properties: a property whose value is undefined is left out.
StringifyProps(ps, i, first) ==
    IF i > Len(ps) THEN ""
    ELSE IF ps[i][2] = Undefined THEN StringifyProps(ps, i + 1, first)
    ELSE (IF first THEN "" ELSE ",")
         \o Quote(ps[i][1]) \o ":" \o Stringify(ps[i][2])
         \o StringifyProps(ps, i + 1, FALSE)

\* JSON.stringify(v): undefined for undefined, else the JSON text.
JSONstringify(v) == IF v = Undefined THEN Undefined ELSE Str(Stringify(v))

\* application/x-www-form-urlencoded byte serialization, as
\* URLSearchParams.toString() applies it to names and values.
FormSafe == "abcdefghijklmnopqrstuvwxyzABCDEFGHIJKLMNOPQRSTUVWXYZ0123456789*-._"

FormChar(ch) ==
    CASE Contains(FormSafe, ch) -> ch
      [] ch = " " -> "+"
      [] ch = "&" -> "%26"
      [] ch = "+" -> "%2B"
      [] ch = "," -> "%2C"
      [] ch = "/" -> "%2F"
      [] ch = ":" -> "%3A"
      [] ch = "=" -> "%3D"
      [] ch = "?" -> "%3F"
      [] ch = "@" -> "%40"
      [] OTHER    -> "%3F"

RECURSIVE FormEncode(_, _)
FormEncode(s, i) ==
    IF i > Len(s) THEN "" ELSE FormChar(CharAt(s, i)) \o FormEncode(s, i + 1)

\* new URLSearchParams(...) is a list of <<name, value>> string pairs;
\* append adds one, toString joins name=value with &.
RECURSIVE ParamsToString(_, _)
ParamsToString(ps, i) ==
    IF i > Len(ps) THEN ""
    ELSE FormEncode(ps[i][1], 1) \o "=" \o FormEncode(ps[i][2], 1)
         \o (IF i < Len(ps) THEN "&" ELSE "")
         \o ParamsToString(ps, i + 1)

\* cond && params.append(name, cond): appended when cond is truthy.
AppendIf(ps, name, v) ==
    IF Truthy(v) THEN Append(ps, <<name, JsToString(v)>>) ELSE ps

----------------------------------------------------------------------------
(* fetch and the two ways an async method ends *)

\* fetch(url, init): the request that goes out; the method is GET unless
\* init names one, the body is absent unless init carries one.
Fetch(url, init) ==
    [url     |-> url,
     method  |-> IF Get(init, "method") = Undefined THEN "GET"
                 ELSE Get(init, "method")[2],
     headers |-> Get(init, "headers"),
     body    |-> Get(init, "body")]

Return(v) == [kind |-> "return", value |-> v]

\* Destructuring undefined or null throws a TypeError: the promise rejects.
Throw == [kind |-> "throw", value |-> Undefined]

----------------------------------------------------------------------------
(* PrintfulAcountClient: for each method, the request it sends for the     *)
(* arguments a (a tuple, undefined for an omitted argument) and what it    *)
(* does with the parsed envelope.                                          *)

getSyncProducts_fetch(this, a) ==
    LET offset      == Default(a[1], Num(0))
        limit       == Default(a[2], Num(20))
        category_id == Default(a[3], Str(""))
        url == Concat(Concat(this.origin \o "/store/products?" \o "offset=", offset)
                      \o "&limit=", limit)
               \o (IF Truthy(category_id) THEN Concat("&category_id=", category_id)
                   ELSE "")
    IN  Fetch(url, Obj(<< <<"headers", this.headers>> >>))

getSyncProducts_return(a, data) ==
    LET offset == Default(a[1], Num(0))
        limit  == Default(a[2], Num(20))
    IN  IF Nullish(data) THEN Throw
        ELSE IF GE(Get(data, "code"), ErrorStatus)
        THEN Return(Obj(<< <<"products", EmptyArr>>,
                           <<"paging", Obj(<< <<"offset", offset>>, <<"limit", limit>> >>)>>,
                           <<"error", Get(data, "error")>> >>))
        ELSE Return(Obj(<< <<"products", Get(data, "result")>>,
                           <<"paging", Get(data, "paging")>>,
                           <<"error", EmptyObj>> >>))

createSyncProduct_fetch(this, a) ==
    LET url == this.origin \o "/store/products"
    IN  Fetch(url, Obj(<< <<"method", Str("POST")>>,
                          <<"headers", this.headers>>,
                          <<"body", JSONstringify(Obj(<< <<"sync_product", a[1]>>,
                                                         <<"sync_variants", a[2]>> >>))>> >>))

createSyncProduct_return(a, data) ==
    IF Nullish(data) THEN Throw
    ELSE IF GE(Get(data, "code"), ErrorStatus)
    THEN Return(Obj(<< <<"product", EmptyObj>>, <<"error", Get(data, "error")>> >>))
    ELSE Return(Obj(<< <<"product", Get(data, "result")>>, <<"error", EmptyObj>> >>))

getSyncProduct_fetch(this, a) ==
    LET url == Concat(this.origin \o "/store/products/", a[1])
    IN  Fetch(url, Obj(<< <<"headers", this.headers>> >>))

\* A slip: the destructuring is guarded (result || {}), so a missing result
\* yields undefined fields where the code faults.
getSyncProduct_return_guarded(a, data) ==
    IF Nullish(data) THEN Throw
    ELSE IF GE(Get(data, "code"), ErrorStatus)
    THEN Return(Obj(<< <<"sync_product", EmptyObj>>,
                       <<"sync_variants", EmptyArr>>,
                       <<"error", Get(data, "error")>> >>))
    ELSE LET result == Default(Get(data, "result"), EmptyObj)
         IN  Return(Obj(<< <<"sync_product", Get(result, "sync_product")>>,
                           <<"sync_variants", Get(result, "sync_variants")>>,
                           <<"error", EmptyObj>> >>))

getSyncProduct_return(a, data) ==
    IF Nullish(data) THEN Throw
    ELSE IF GE(Get(data, "code"), ErrorStatus)
    THEN Return(Obj(<< <<"sync_product", EmptyObj>>,
                       <<"sync_variants", EmptyArr>>,
                       <<"error", Get(data, "error")>> >>))
    ELSE LET result == Get(data, "result")
         IN  IF Nullish(result) THEN Throw
             ELSE Return(Obj(<< <<"sync_product", Get(result, "sync_product")>>,
                                <<"sync_variants", Get(result, "sync_variants")>>,
                                <<"error", EmptyObj>> >>))

deleteSyncProduct_fetch(this, a) ==
    LET url == Concat(this.origin \o "/store/products/", a[1])
    IN  Fetch(url, Obj(<< <<"method", Str("DELETE")>>, <<"headers", this.headers>> >>))

deleteSyncProduct_return(a, data) ==
    IF Nullish(data) THEN Throw
    ELSE IF GE(Get(data, "code"), ErrorStatus)
    THEN Return(Obj(<< <<"result", EmptyArr>>, <<"error", Get(data, "error")>> >>))
    ELSE Return(Obj(<< <<"result", Get(data, "result")>>, <<"error", EmptyObj>> >>))

modifySyncProduct_fetch(this, a) ==
    LET url == Concat(this.origin \o "/store/products/", a[1])
    IN  Fetch(url, Obj(<< <<"method", Str("PUT")>>,
                          <<"headers", this.headers>>,
                          <<"body", JSONstringify(Obj(<< <<"sync_product", a[2]>>,
                                                         <<"sync_variants", a[3]>> >>))>> >>))

modifySyncProduct_return(a, data) ==
    IF Nullish(data) THEN Throw
    ELSE IF GE(Get(data, "code"), ErrorStatus)
    THEN Return(Obj(<< <<"product", EmptyObj>>, <<"error", Get(data, "error")>> >>))
    ELSE Return(Obj(<< <<"product", Get(data, "result")>>, <<"error", EmptyObj>> >>))

getSyncVariant_fetch(this, a) ==
    LET url == Concat(this.origin \o "/store/variants/", a[1])
    IN  Fetch(url, Obj(<< <<"headers", this.headers>> >>))

getSyncVariant_return(a, data) ==
    IF Nullish(data) THEN Throw
    ELSE IF GE(Get(data, "code"), ErrorStatus)
    THEN Return(Obj(<< <<"variant", EmptyObj>>, <<"error", Get(data, "error")>> >>))
    ELSE Return(Obj(<< <<"variant", Get(data, "result")>>, <<"error", EmptyObj>> >>))

deleteSyncVariant_fetch(this, a) ==
    LET url == Concat(this.origin \o "/store/variants/", a[1])
    IN  Fetch(url, Obj(<< <<"method", Str("DELETE")>>, <<"headers", this.headers>> >>))

deleteSyncVariant_return(a, data) ==
    IF Nullish(data) THEN Throw
    ELSE IF GE(Get(data, "code"), ErrorStatus)
    THEN Return(Obj(<< <<"result", EmptyArr>>, <<"error", Get(data, "error")>> >>))
    ELSE Return(Obj(<< <<"result", Get(data, "result")>>, <<"error", EmptyObj>> >>))

modifySyncVariant_fetch(this, a) ==
    LET url == Concat(this.origin \o "/store/variants/", a[1])
    IN  Fetch(url, Obj(<< <<"method", Str("PUT")>>,
                          <<"body", JSONstringify(a[2])>>,
                          <<"headers", this.headers>> >>))

modifySyncVariant_return(a, data) ==
    IF Nullish(data) THEN Throw
    ELSE IF GE(Get(data, "code"), ErrorStatus)
    THEN Return(Obj(<< <<"variant", EmptyObj>>, <<"error", Get(data, "error")>> >>))
    ELSE Return(Obj(<< <<"variant", Get(data, "result")>>, <<"error", EmptyObj>> >>))

\* "/store/products/"+{id}+"/variants": {id} is an object literal, and an
\* object concatenated to a string is "[object Object]".
createSyncVariant_fetch(this, a) ==
    LET url == Concat(this.origin \o "/store/products/", Obj(<< <<"id", a[1]>> >>))
               \o "/variants"
    IN  Fetch(url, Obj(<< <<"method", Str("POST")>>,
                          <<"body", JSONstringify(a[2])>>,
                          <<"headers", this.headers>> >>))

createSyncVariant_return(a, data) ==
    IF Nullish(data) THEN Throw
    ELSE IF GE(Get(data, "code"), ErrorStatus)
    THEN Return(Obj(<< <<"variant", EmptyObj>>, <<"error", Get(data, "error")>> >>))
    ELSE Return(Obj(<< <<"variant", Get(data, "result")>>, <<"error", EmptyObj>> >>))

getProductTemplates_fetch(this, a) ==
    LET offset == Default(a[1], Num(0))
        limit  == Default(a[2], Num(20))
        url == Concat(Concat(this.origin \o "/product-templates" \o "?offset=", offset)
                      \o "&limit=", limit)
    IN  Fetch(url, Obj(<< <<"headers", this.headers>> >>))

getProductTemplates_return(a, data) ==
    LET offset == Default(a[1], Num(0))
        limit  == Default(a[2], Num(20))
    IN  IF Nullish(data) THEN Throw
        ELSE IF GE(Get(data, "code"), ErrorStatus)
        THEN Return(Obj(<< <<"templates", EmptyArr>>,
                           <<"paging", Obj(<< <<"offset", offset>>, <<"limit", limit>> >>)>>,
                           <<"error", Get(data, "error")>> >>))
        ELSE LET result == Get(data, "result")
             IN  IF Nullish(result) THEN Throw
                 ELSE Return(Obj(<< <<"templates", Get(result, "items")>>,
                                    <<"paging", Get(data, "paging")>>,
                                    <<"error", EmptyObj>> >>))

getProductTemplate_fetch(this, a) ==
    LET url == Concat(this.origin \o "/product-templates/", a[1])
    IN  Fetch(url, Obj(<< <<"headers", this.headers>> >>))

getProductTemplate_return(a, data) ==
    IF Nullish(data) THEN Throw
    ELSE IF GE(Get(data, "code"), ErrorStatus)
    THEN Return(Obj(<< <<"template", EmptyObj>>, <<"error", Get(data, "error")>> >>))
    ELSE Return(Obj(<< <<"template", Get(data, "result")>>, <<"error", EmptyObj>> >>))

deleteProductTemplate_fetch(this, a) ==
    LET url == Concat(this.origin \o "/product-templates/", a[1])
    IN  Fetch(url, Obj(<< <<"method", Str("DELETE")>>, <<"headers", this.headers>> >>))

\* A slip: the failure branch returns error: {} like the success branch.
deleteProductTemplate_return_emptyError(a, data) ==
    IF Nullish(data) THEN Throw
    ELSE IF GE(Get(data, "code"), ErrorStatus)
    THEN Return(Obj(<< <<"success", Bool(FALSE)>>, <<"error", EmptyObj>> >>))
    ELSE LET result == Get(data, "result")
         IN  IF Nullish(result) THEN Throw
             ELSE Return(Obj(<< <<"success", Get(result, "success")>>,
                                <<"error", EmptyObj>> >>))

deleteProductTemplate_return(a, data) ==
    IF Nullish(data) THEN Throw
    ELSE IF GE(Get(data, "code"), ErrorStatus)
    THEN Return(Obj(<< <<"success", Bool(FALSE)>>, <<"error", Get(data, "error")>> >>))
    ELSE LET result == Get(data, "result")
         IN  IF Nullish(result) THEN Throw
             ELSE Return(Obj(<< <<"success", Get(result, "success")>>,
                                <<"error", EmptyObj>> >>))

\* status has no default and no test: undefined is concatenated as text.
getOrders_fetch(this, a) ==
    LET offset == Default(a[1], Num(0))
        limit  == Default(a[2], Num(20))
        status == a[3]
        url == Concat(Concat(Concat(this.origin \o "/orders" \o "?offset=", offset)
                             \o "&limit=", limit)
                      \o "&status=", status)
    IN  Fetch(url, Obj(<< <<"headers", this.headers>> >>))

\* A slip: the failure branch passes the envelope's paging through.
getOrders_return_envelopePaging(a, data) ==
    IF Nullish(data) THEN Throw
    ELSE IF GE(Get(data, "code"), ErrorStatus)
    THEN Return(Obj(<< <<"orders", EmptyArr>>,
                       <<"paging", Get(data, "paging")>>,
                       <<"error", Get(data, "error")>> >>))
    ELSE Return(Obj(<< <<"orders", Get(data, "result")>>,
                       <<"paging", Get(data, "paging")>>,
                       <<"error", EmptyObj>> >>))

getOrders_return(a, data) ==
    LET offset == Default(a[1], Num(0))
        limit  == Default(a[2], Num(20))
    IN  IF Nullish(data) THEN Throw
        ELSE IF GE(Get(data, "code"), ErrorStatus)
        THEN Return(Obj(<< <<"orders", EmptyArr>>,
                           <<"paging", Obj(<< <<"offset", offset>>, <<"limit", limit>> >>)>>,
                           <<"error", Get(data, "error")>> >>))
        ELSE Return(Obj(<< <<"orders", Get(data, "result")>>,
                           <<"paging", Get(data, "paging")>>,
                           <<"error", EmptyObj>> >>))

\* A slip: the two flags are written under each other's name.
createOrder_fetch_swapped(this, a) ==
    LET confirm         == Default(a[2], Bool(FALSE))
        update_existing == Default(a[3], Bool(FALSE))
        url == Concat(Concat(this.origin \o "/orders" \o "?confirm=", update_existing)
                      \o "&update_existing=", confirm)
    IN  Fetch(url, Obj(<< <<"method", Str("POST")>>,
                          <<"headers", this.headers>>,
                          <<"body", JSONstringify(a[1])>> >>))

createOrder_fetch(this, a) ==
    LET confirm         == Default(a[2], Bool(FALSE))
        update_existing == Default(a[3], Bool(FALSE))
        url == Concat(Concat(this.origin \o "/orders" \o "?confirm=", confirm)
                      \o "&update_existing=", update_existing)
    IN  Fetch(url, Obj(<< <<"method", Str("POST")>>,
                          <<"headers", this.headers>>,
                          <<"body", JSONstringify(a[1])>> >>))

\* The success branch returns {order, error}: the envelope's own error.
createOrder_return(a, data) ==
    IF Nullish(data) THEN Throw
    ELSE IF GE(Get(data, "code"), ErrorStatus)
    THEN Return(Obj(<< <<"order", EmptyObj>>, <<"error", Get(data, "error")>> >>))
    ELSE Return(Obj(<< <<"order", Get(data, "result")>>, <<"error", Get(data, "error")>> >>))

----------------------------------------------------------------------------
(* MockupGeneratorAPI *)

createMockupTask_fetch(this, a) ==
    LET url == Concat(this.origin \o "/mockup-generator/create-task/", a[1])
    IN  Fetch(url, Obj(<< <<"method", Str("POST")>>,
                          <<"headers", this.headers>>,
                          <<"body", JSONstringify(a[2])>> >>))

createMockupTask_return(a, data) ==
    IF Nullish(data) THEN Throw
    ELSE IF GE(Get(data, "code"), ErrorStatus)
    THEN Return(Obj(<< <<"task", Null>>, <<"error", Get(data, "error")>> >>))
    ELSE Return(Obj(<< <<"task", Get(data, "result")>>, <<"error", Null>> >>))

getProductVariantPrintFiles_fetch(this, a) ==
    LET params == AppendIf(AppendIf(<<>>, "orientation", a[2]), "technique", a[3])
        url == Concat(this.origin \o "/mockup-generator/printfiles/", a[1])
               \o "?" \o ParamsToString(params, 1)
    IN  Fetch(url, Obj(<< <<"headers", this.headers>> >>))

getProductVariantPrintFiles_return(a, data) ==
    IF Nullish(data) THEN Throw
    ELSE IF GE(Get(data, "code"), ErrorStatus)
    THEN Return(Obj(<< <<"files", Null>>, <<"error", Get(data, "error")>> >>))
    ELSE Return(Obj(<< <<"files", Get(data, "result")>>, <<"error", Null>> >>))

getMockupTaskResult_fetch(this, a) ==
    LET params == << <<"task_key", JsToString(a[1])>> >>
        url == this.origin \o "/mockup-generator/task?" \o ParamsToString(params, 1)
    IN  Fetch(url, Obj(<< <<"headers", this.headers>> >>))

getMockupTaskResult_return(a, data) ==
    IF Nullish(data) THEN Throw
    ELSE IF GE(Get(data, "code"), ErrorStatus)
    THEN Return(Obj(<< <<"task", Null>>, <<"error", Get(data, "error")>> >>))
    ELSE Return(Obj(<< <<"task", Get(data, "result")>>, <<"error", Null>> >>))

\* A slip: params is one URLSearchParams object shared by the calls, so a
\* later call appends to what an earlier call of the method left in it.
getLayoutTemplates_fetch_sharedParams(this, a) ==
    LET earlier == {d \in DOMAIN calls : /\ calls[d].method = "getLayoutTemplates"
                                         /\ calls[d].pc # "idle"}
        kept   == IF earlier = {} THEN <<>>
                  ELSE LET b == calls[CHOOSE d \in earlier : TRUE].args
                       IN  AppendIf(AppendIf(<<>>, "orientation", b[2]), "technique", b[3])
        params == AppendIf(AppendIf(kept, "orientation", a[2]), "technique", a[3])
        url == Concat(this.origin \o "/mockup-generator/templates/", a[1])
               \o "?" \o ParamsToString(params, 1)
    IN  Fetch(url, Obj(<< <<"headers", this.headers>> >>))

getLayoutTemplates_fetch(this, a) ==
    LET params == AppendIf(AppendIf(<<>>, "orientation", a[2]), "technique", a[3])
        url == Concat(this.origin \o "/mockup-generator/templates/", a[1])
               \o "?" \o ParamsToString(params, 1)
    IN  Fetch(url, Obj(<< <<"headers", this.headers>> >>))

getLayoutTemplates_return(a, data) ==
    IF Nullish(data) THEN Throw
    ELSE IF GE(Get(data, "code"), ErrorStatus)
    THEN Return(Obj(<< <<"templates", Null>>, <<"error", Get(data, "error")>> >>))
    ELSE Return(Obj(<< <<"templates", Get(data, "result")>>, <<"error", Null>> >>))

----------------------------------------------------------------------------
(* Construction *)

\* a || b
Or(a, b) == IF Truthy(a) THEN a ELSE b

\* A slip: "Bearer " + auth, without the || "".
PrintfulAcountClient_noDefault(a) ==
    [origin  |-> "https://api.printful.com",
     headers |-> Obj(<< <<"Authorization", Str(Concat("Bearer ", a))>> >>)]

\* new PrintfulAcountClient(auth): the origin and headers fields.
PrintfulAcountClient(a) ==
    [origin  |-> "https://api.printful.com",
     headers |-> Obj(<< <<"Authorization", Str(Concat("Bearer ", Or(a, Str(""))))>> >>)]

\* super(headers, origin) of the resource-area classes: GenericAPI keeps
\* the two values it is given.
GenericAPI(h, o) == [headers |-> h, origin |-> o]

\* new MockupGeneratorAPI(headers, origin)
MockupGeneratorAPI(h, o) == GenericAPI(h, o)

----------------------------------------------------------------------------
(* The inputs: arguments of the caller and answers of the remote service *)

MaxId     == 1   \* numeric ids are 1..MaxId
MaxOffset == 1   \* explicit offsets are 0..MaxOffset
MaxLimit  == 1   \* explicit limits are 1..MaxLimit

Tokens == {Undefined, Str(""), Str("tok")}

Ids      == {Num(i) : i \in 1..MaxId} \cup {Str("@ext-1")}
Offsets  == {Undefined} \cup {Num(i) : i \in 0..MaxOffset}
Limits   == {Undefined} \cup {Num(i) : i \in 1..MaxLimit}
CategoryIds  == {Undefined, Str(""), Str("24,25")}
Statuses     == {Undefined, Str("draft")}
Orientations == {Undefined, Str("horizontal")}
Techniques   == {Undefined, Str(""), Str("DTG & emb")}
TaskKeys     == {Str("gt-1"), Str("k/2")}
Flags        == {Undefined, Bool(TRUE), Bool(FALSE)}

Products == {Obj(<< <<"name", Str("5\" tee")>>, <<"thumbnail", Undefined>> >>)}
Variants == {Obj(<< <<"variant_id", Num(4011)>>, <<"retail_price", Str("9.50")>> >>)}
VariantLists == {EmptyArr} \cup {Arr(<<v>>) : v \in Variants}
Orders   == {Obj(<< <<"external_id", Str("o1")>> >>),
             Obj(<< <<"recipient", Obj(<< <<"name", Str("A B")>> >>)>>,
                    <<"items", Arr(<< Obj(<< <<"sync_variant_id", Num(1)>>,
                                             <<"quantity", Num(2)>> >>) >>)>> >>)}
MockupTasks == {Obj(<< <<"variant_ids", Arr(<<Num(1), Num(2)>>)>>,
                       <<"format", Str("jpg")>> >>)}

\* The envelope's fields; undefined stands for a field the envelope lacks.
Codes   == {Undefined, Num(200), Num(399), Num(400), Num(404), Str("500")}
Results == {Undefined,
            Arr(<< Obj(<< <<"id", Num(1)>> >>) >>),
            Obj(<< <<"id", Num(1)>>,
                   <<"sync_product", Obj(<< <<"id", Num(1)>> >>)>>,
                   <<"sync_variants", Arr(<< Obj(<< <<"id", Num(2)>> >>) >>)>>,
                   <<"items", Arr(<< Obj(<< <<"id", Num(3)>> >>) >>)>>,
                   <<"success", Bool(TRUE)>> >>)}
Errors  == {Undefined, EmptyObj, Obj(<< <<"message", Str("not found")>> >>)}
Pagings == {Undefined,
            Obj(<< <<"offset", Num(0)>>, <<"limit", Num(20)>>, <<"total", Num(1)>> >>)}

Field(k, v) == IF v = Undefined THEN <<>> ELSE << <<k, v>> >>

Envelope(code, result, error, paging) ==
    Obj(Field("code", code) \o Field("result", result)
        \o Field("error", error) \o Field("paging", paging))

\* What response.json() can resolve to: an envelope, or the JSON text null.
Bodies ==
    {Envelope(c, r, e, p) : c \in Codes, r \in Results, e \in Errors, p \in Pagings}
    \cup {Null}

----------------------------------------------------------------------------
(* The calls *)

AccountMethods ==
    {"getSyncProducts", "createSyncProduct", "getSyncProduct", "deleteSyncProduct",
     "modifySyncProduct", "getSyncVariant", "deleteSyncVariant", "modifySyncVariant",
     "createSyncVariant", "getProductTemplates", "getProductTemplate",
     "deleteProductTemplate", "getOrders", "createOrder"}

MockupMethods ==
    {"createMockupTask", "getProductVariantPrintFiles", "getMockupTaskResult",
     "getLayoutTemplates"}

Methods == AccountMethods \cup MockupMethods

\* The object a method runs on.
This(m) == IF m \in MockupMethods THEN mockup
           ELSE [origin |-> origin, headers |-> headers]

\* The synchronous part of method m, up to its await fetch(...).
RequestOf(m, a) ==
    CASE m = "getSyncProducts"       -> getSyncProducts_fetch(This(m), a)
      [] m = "createSyncProduct"     -> createSyncProduct_fetch(This(m), a)
      [] m = "getSyncProduct"        -> getSyncProduct_fetch(This(m), a)
      [] m = "deleteSyncProduct"     -> deleteSyncProduct_fetch(This(m), a)
      [] m = "modifySyncProduct"     -> modifySyncProduct_fetch(This(m), a)
      [] m = "getSyncVariant"        -> getSyncVariant_fetch(This(m), a)
      [] m = "deleteSyncVariant"     -> deleteSyncVariant_fetch(This(m), a)
      [] m = "modifySyncVariant"     -> modifySyncVariant_fetch(This(m), a)
      [] m = "createSyncVariant"     -> createSyncVariant_fetch(This(m), a)
      [] m = "getProductTemplates"   -> getProductTemplates_fetch(This(m), a)
      [] m = "getProductTemplate"    -> getProductTemplate_fetch(This(m), a)
      [] m = "deleteProductTemplate" -> deleteProductTemplate_fetch(This(m), a)
      [] m = "getOrders"             -> getOrders_fetch(This(m), a)
      [] m = "createOrder"           -> createOrder_fetch(This(m), a)
      [] m = "createMockupTask"      -> createMockupTask_fetch(This(m), a)
      [] m = "getProductVariantPrintFiles" -> getProductVariantPrintFiles_fetch(This(m), a)
      [] m = "getMockupTaskResult"   -> getMockupTaskResult_fetch(This(m), a)
      [] m = "getLayoutTemplates"    -> getLayoutTemplates_fetch(This(m), a)

\* The part of method m after const data = await response.json().
ReturnOf(m, a, data) ==
    CASE m = "getSyncProducts"       -> getSyncProducts_return(a, data)
      [] m = "createSyncProduct"     -> createSyncProduct_return(a, data)
      [] m = "getSyncProduct"        -> getSyncProduct_return(a, data)
      [] m = "deleteSyncProduct"     -> deleteSyncProduct_return(a, data)
      [] m = "modifySyncProduct"     -> modifySyncProduct_return(a, data)
      [] m = "getSyncVariant"        -> getSyncVariant_return(a, data)
      [] m = "deleteSyncVariant"     -> deleteSyncVariant_return(a, data)
      [] m = "modifySyncVariant"     -> modifySyncVariant_return(a, data)
      [] m = "createSyncVariant"     -> createSyncVariant_return(a, data)
      [] m = "getProductTemplates"   -> getProductTemplates_return(a, data)
      [] m = "getProductTemplate"    -> getProductTemplate_return(a, data)
      [] m = "deleteProductTemplate" -> deleteProductTemplate_return(a, data)
      [] m = "getOrders"             -> getOrders_return(a, data)
      [] m = "createOrder"           -> createOrder_return(a, data)
      [] m = "createMockupTask"      -> createMockupTask_return(a, data)
      [] m = "getProductVariantPrintFiles" -> getProductVariantPrintFiles_return(a, data)
      [] m = "getMockupTaskResult"   -> getMockupTaskResult_return(a, data)
      [] m = "getLayoutTemplates"    -> getLayoutTemplates_return(a, data)

NoRequest == [url |-> "", method |-> "", headers |-> Undefined, body |-> Undefined]

\* A call slot with no call made yet.
Idle ==
    [pc |-> "idle", method |-> "", args |-> <<>>, req |-> NoRequest, sent |-> 0,
     data |-> Undefined, ret |-> Undefined, fault |-> ""]

\* A slot is free for a new call when it holds no call.
Free(c) == calls[c].pc = "idle"

\* The caller calls method m with arguments a: the method runs up to its
\* first await, which sends the request.
Invoked(m, a) ==
    [pc |-> "fetch", method |-> m, args |-> a,
     req |-> RequestOf(m, a), sent |-> 1,
     data |-> Undefined, ret |-> Undefined, fault |-> ""]

Call_getSyncProducts(c) ==
    \E offset \in Offsets, limit \in Limits, category_id \in CategoryIds :
        /\ Free(c)
        /\ calls' = [calls EXCEPT ![c] = Invoked("getSyncProducts", <<offset, limit, category_id>>)]
        /\ UNCHANGED <<auth, origin, headers, mockup>>

Call_createSyncProduct(c) ==
    \E sync_product \in Products, sync_variants \in VariantLists :
        /\ Free(c)
        /\ calls' = [calls EXCEPT ![c] = Invoked("createSyncProduct", <<sync_product, sync_variants>>)]
        /\ UNCHANGED <<auth, origin, headers, mockup>>

Call_getSyncProduct(c) ==
    \E id \in Ids :
        /\ Free(c)
        /\ calls' = [calls EXCEPT ![c] = Invoked("getSyncProduct", <<id>>)]
        /\ UNCHANGED <<auth, origin, headers, mockup>>

Call_deleteSyncProduct(c) ==
    \E id \in Ids :
        /\ Free(c)
        /\ calls' = [calls EXCEPT ![c] = Invoked("deleteSyncProduct", <<id>>)]
        /\ UNCHANGED <<auth, origin, headers, mockup>>

Call_modifySyncProduct(c) ==
    \E id \in Ids, sync_product \in Products, sync_variants \in VariantLists :
        /\ Free(c)
        /\ calls' = [calls EXCEPT ![c] = Invoked("modifySyncProduct", <<id, sync_product, sync_variants>>)]
        /\ UNCHANGED <<auth, origin, headers, mockup>>

Call_getSyncVariant(c) ==
    \E id \in Ids :
        /\ Free(c)
        /\ calls' = [calls EXCEPT ![c] = Invoked("getSyncVariant", <<id>>)]
        /\ UNCHANGED <<auth, origin, headers, mockup>>

Call_deleteSyncVariant(c) ==
    \E id \in Ids :
        /\ Free(c)
        /\ calls' = [calls EXCEPT ![c] = Invoked("deleteSyncVariant", <<id>>)]
        /\ UNCHANGED <<auth, origin, headers, mockup>>

Call_modifySyncVariant(c) ==
    \E id \in Ids, sync_variant \in Variants :
        /\ Free(c)
        /\ calls' = [calls EXCEPT ![c] = Invoked("modifySyncVariant", <<id, sync_variant>>)]
        /\ UNCHANGED <<auth, origin, headers, mockup>>

Call_createSyncVariant(c) ==
    \E id \in Ids, sync_variant \in Variants :
        /\ Free(c)
        /\ calls' = [calls EXCEPT ![c] = Invoked("createSyncVariant", <<id, sync_variant>>)]
        /\ UNCHANGED <<auth, origin, headers, mockup>>

Call_getProductTemplates(c) ==
    \E offset \in Offsets, limit \in Limits :
        /\ Free(c)
        /\ calls' = [calls EXCEPT ![c] = Invoked("getProductTemplates", <<offset, limit>>)]
        /\ UNCHANGED <<auth, origin, headers, mockup>>

Call_getProductTemplate(c) ==
    \E id \in Ids :
        /\ Free(c)
        /\ calls' = [calls EXCEPT ![c] = Invoked("getProductTemplate", <<id>>)]
        /\ UNCHANGED <<auth, origin, headers, mockup>>

Call_deleteProductTemplate(c) ==
    \E id \in Ids :
        /\ Free(c)
        /\ calls' = [calls EXCEPT ![c] = Invoked("deleteProductTemplate", <<id>>)]
        /\ UNCHANGED <<auth, origin, headers, mockup>>

Call_getOrders(c) ==
    \E offset \in Offsets, limit \in Limits, status \in Statuses :
        /\ Free(c)
        /\ calls' = [calls EXCEPT ![c] = Invoked("getOrders", <<offset, limit, status>>)]
        /\ UNCHANGED <<auth, origin, headers, mockup>>

Call_createOrder(c) ==
    \E newOrder \in Orders, confirm \in Flags, update_existing \in Flags :
        /\ Free(c)
        /\ calls' = [calls EXCEPT ![c] = Invoked("createOrder", <<newOrder, confirm, update_existing>>)]
        /\ UNCHANGED <<auth, origin, headers, mockup>>

Call_createMockupTask(c) ==
    \E id \in Ids, mockup_task \in MockupTasks :
        /\ Free(c)
        /\ calls' = [calls EXCEPT ![c] = Invoked("createMockupTask", <<id, mockup_task>>)]
        /\ UNCHANGED <<auth, origin, headers, mockup>>

Call_getProductVariantPrintFiles(c) ==
    \E id \in Ids \cup {Undefined}, orientation \in Orientations, technique \in Techniques :
        /\ Free(c)
        /\ calls' = [calls EXCEPT ![c] = Invoked("getProductVariantPrintFiles", <<id, orientation, technique>>)]
        /\ UNCHANGED <<auth, origin, headers, mockup>>

Call_getMockupTaskResult(c) ==
    \E task_key \in TaskKeys :
        /\ Free(c)
        /\ calls' = [calls EXCEPT ![c] = Invoked("getMockupTaskResult", <<task_key>>)]
        /\ UNCHANGED <<auth, origin, headers, mockup>>

Call_getLayoutTemplates(c) ==
    \E id \in Ids, orientation \in Orientations, technique \in Techniques :
        /\ Free(c)
        /\ calls' = [calls EXCEPT ![c] = Invoked("getLayoutTemplates", <<id, orientation, technique>>)]
        /\ UNCHANGED <<auth, origin, headers, mockup>>

\* await fetch(...) resolves: a response arrived.
FetchResolve(c) ==
    /\ calls[c].pc = "fetch"
    /\ calls' = [calls EXCEPT ![c].pc = "json"]
    /\ UNCHANGED <<auth, origin, headers, mockup>>

\* A slip: a try/catch around the awaits that turns the fault into a
\* return value.
Rejected_caught(call, why) ==
    [call EXCEPT !.pc = "returned", !.fault = why,
                 !.ret = Obj(<< <<"error", Obj(<< <<"message", Str(why)>> >>)>> >>)]

\* What a rejection inside the method does to the call: nothing catches
\* it, so the method's promise rejects.
Rejected(call, why) == [call EXCEPT !.pc = "rejected", !.fault = why]

\* await fetch(...) rejects: a network fault.
FetchReject(c) ==
    /\ calls[c].pc = "fetch"
    /\ calls' = [calls EXCEPT ![c] = Rejected(calls[c], "fetch")]
    /\ UNCHANGED <<auth, origin, headers, mockup>>

\* await response.json() resolves with the parsed body.
JsonResolve(c) ==
    /\ calls[c].pc = "json"
    /\ \E data \in Bodies :
          calls' = [calls EXCEPT ![c].pc = "parsed", ![c].data = data]
    /\ UNCHANGED <<auth, origin, headers, mockup>>

\* await response.json() rejects: the body is not JSON.
JsonReject(c) ==
    /\ calls[c].pc = "json"
    /\ calls' = [calls EXCEPT ![c] = Rejected(calls[c], "json")]
    /\ UNCHANGED <<auth, origin, headers, mockup>>

\* A slip: the request is sent once more after a code >= 400 envelope.
Settled_retry(call) ==
    LET out == ReturnOf(call.method, call.args, call.data)
    IN  IF GE(Get(call.data, "code"), ErrorStatus) /\ call.sent < 2
        THEN [call EXCEPT !.pc = "fetch", !.sent = @ + 1, !.data = Undefined]
        ELSE IF out.kind = "return"
        THEN [call EXCEPT !.pc = "returned", !.ret = out.value]
        ELSE [call EXCEPT !.pc = "rejected", !.fault = "TypeError"]

\* A slip: the parsed body is kept in a field of the client, which the
\* other call in flight overwrites before this one reads it.
Settled_sharedData(call) ==
    LET others == {d \in DOMAIN calls : calls[d] # call /\ calls[d].data # Undefined}
        data   == IF others = {} THEN call.data
                  ELSE calls[CHOOSE d \in others : TRUE].data
        out    == ReturnOf(call.method, call.args, data)
    IN  IF out.kind = "return"
        THEN [call EXCEPT !.pc = "returned", !.ret = out.value]
        ELSE [call EXCEPT !.pc = "rejected", !.fault = "TypeError"]

\* The call after the rest of its method ran on the parsed body.
Settled(call) ==
    LET out == ReturnOf(call.method, call.args, call.data)
    IN  IF out.kind = "return"
        THEN [call EXCEPT !.pc = "returned", !.ret = out.value]
        ELSE Rejected(call, "TypeError")

\* The method resumes after await data and runs to its end.
Resume(c) ==
    /\ calls[c].pc = "parsed"
    /\ calls' = [calls EXCEPT ![c] = Settled(calls[c])]
    /\ UNCHANGED <<auth, origin, headers, mockup>>

\* The caller takes the outcome of the settled call (its await on the
\* method's promise ends); the slot is free for the caller's next call.
Await(c) ==
    /\ calls[c].pc \in {"returned", "rejected"}
    /\ calls' = [calls EXCEPT ![c] = Idle]
    /\ UNCHANGED <<auth, origin, headers, mockup>>

----------------------------------------------------------------------------
(* One caller that makes one call at a time *)

Sequential == {"c1"}

Init ==
    /\ auth \in Tokens
    /\ origin = PrintfulAcountClient(auth).origin
    /\ headers = PrintfulAcountClient(auth).headers
    /\ mockup = MockupGeneratorAPI(PrintfulAcountClient(auth).headers,
                                   PrintfulAcountClient(auth).origin)
    /\ calls = [c \in Sequential |-> Idle]

Next ==
    \E c \in Sequential :
    \/ Call_getSyncProducts(c)
    \/ Call_createSyncProduct(c)
    \/ Call_getSyncProduct(c)
    \/ Call_deleteSyncProduct(c)
    \/ Call_modifySyncProduct(c)
    \/ Call_getSyncVariant(c)
    \/ Call_deleteSyncVariant(c)
    \/ Call_modifySyncVariant(c)
    \/ Call_createSyncVariant(c)
    \/ Call_getProductTemplates(c)
    \/ Call_getProductTemplate(c)
    \/ Call_deleteProductTemplate(c)
    \/ Call_getOrders(c)
    \/ Call_createOrder(c)
    \/ Call_createMockupTask(c)
    \/ Call_getProductVariantPrintFiles(c)
    \/ Call_getMockupTaskResult(c)
    \/ Call_getLayoutTemplates(c)
    \/ FetchResolve(c)
    \/ FetchReject(c)
    \/ JsonResolve(c)
    \/ JsonReject(c)
    \/ Resume(c)
    \/ Await(c)

Spec == Init /\ [][Next]_vars

----------------------------------------------------------------------------
(* What the properties below read off a call *)

Code(call)   == Get(call.data, "code")
Failed(call) == GE(Code(call), ErrorStatus)

\* The envelope carries a numeric code below 400.
Succeeded(call) == Tag(Code(call)) = "num" /\ Code(call)[2] < ErrorStatus

Returned(c) == calls[c].pc = "returned"

\* The slots whose call has been made and not yet taken by the caller.
Made == {c \in DOMAIN calls : calls[c].pc # "idle"}

\* The payload fields of each method's return value and, for each, the
\* part of the envelope's result it carries on success ("" for the whole
\* result) and the empty value it has on failure.
PayloadFields(m) ==
    CASE m = "getSyncProducts"       -> << <<"products", "", EmptyArr>> >>
      [] m = "createSyncProduct"     -> << <<"product", "", EmptyObj>> >>
      [] m = "getSyncProduct"        -> << <<"sync_product", "sync_product", EmptyObj>>,
                                           <<"sync_variants", "sync_variants", EmptyArr>> >>
      [] m = "deleteSyncProduct"     -> << <<"result", "", EmptyArr>> >>
      [] m = "modifySyncProduct"     -> << <<"product", "", EmptyObj>> >>
      [] m = "getSyncVariant"        -> << <<"variant", "", EmptyObj>> >>
      [] m = "deleteSyncVariant"     -> << <<"result", "", EmptyArr>> >>
      [] m = "modifySyncVariant"     -> << <<"variant", "", EmptyObj>> >>
      [] m = "createSyncVariant"     -> << <<"variant", "", EmptyObj>> >>
      [] m = "getProductTemplates"   -> << <<"templates", "items", EmptyArr>> >>
      [] m = "getProductTemplate"    -> << <<"template", "", EmptyObj>> >>
      [] m = "deleteProductTemplate" -> << <<"success", "success", Bool(FALSE)>> >>
      [] m = "getOrders"             -> << <<"orders", "", EmptyArr>> >>
      [] m = "createOrder"           -> << <<"order", "", EmptyObj>> >>
      [] m = "createMockupTask"      -> << <<"task", "", Null>> >>
      [] m = "getProductVariantPrintFiles" -> << <<"files", "", Null>> >>
      [] m = "getMockupTaskResult"   -> << <<"task", "", Null>> >>
      [] m = "getLayoutTemplates"    -> << <<"templates", "", Null>> >>

Paginated == {"getSyncProducts", "getProductTemplates", "getOrders"}

SubResult(data, sub) ==
    IF sub = "" THEN Get(data, "result") ELSE Get(Get(data, "result"), sub)

\* The success half of a return value: every payload field carries the
\* envelope's result (or its documented sub-field), the error is {} or null.
SuccessNormalized(call) ==
    /\ Get(call.ret, "error") \in {EmptyObj, Null}
    /\ \A i \in 1..Len(PayloadFields(call.method)) :
          LET f == PayloadFields(call.method)[i]
          IN  Get(call.ret, f[1]) = SubResult(call.data, f[2])

SuccessNormalizedIn(ms) ==
    \A c \in DOMAIN calls :
        (Returned(c) /\ calls[c].method \in ms /\ Succeeded(calls[c]))
            => SuccessNormalized(calls[c])

\* C1: whenever an endpoint method returns for an envelope with code < 400,
\* the returned error field is {} or null and each payload field equals the
\* envelope's result or the documented sub-field of it.
C1_SuccessReturn == SuccessNormalizedIn(Methods)

----------------------------------------------------------------------------

\* The failure half of a return value: every payload field has the
\* method's empty value and the error is the envelope's error.
FailureNormalized(call) ==
    /\ Get(call.ret, "error") = Get(call.data, "error")
    /\ \A i \in 1..Len(PayloadFields(call.method)) :
          LET f == PayloadFields(call.method)[i]
          IN  Get(call.ret, f[1]) = f[3]

\* The empty values the statement of C2 names.
ListPayloads == {"products", "templates", "orders", "sync_variants"}

\* C2 as stated: whenever an endpoint method returns for an envelope with
\* code >= 400, each payload field is [] (and nothing else for the list
\* endpoints), {} or null, and the error field equals the envelope's error.
C2_EmptyListOrObject ==
    \A c \in DOMAIN calls :
        (Returned(c) /\ Failed(calls[c]))
            => /\ Get(calls[c].ret, "error") = Get(calls[c].data, "error")
               /\ \A i \in 1..Len(PayloadFields(calls[c].method)) :
                     LET f == PayloadFields(calls[c].method)[i]
                         v == Get(calls[c].ret, f[1])
                     IN  IF f[1] \in ListPayloads /\ calls[c].method \in AccountMethods
                         THEN v = EmptyArr
                         ELSE v \in {EmptyArr, EmptyObj, Null}

\* C2 amended: whenever an endpoint method returns for an envelope with
\* code >= 400,
\* each payload field equals the method's empty value ([] for the list
\* endpoints and the two sync deletes, {} for the account client's object
\* endpoints, null for the mockup generator's, false for the success flag
\* of deleteProductTemplate) and the error field equals the envelope's error.
C2_FailureReturn ==
    \A c \in DOMAIN calls :
        (Returned(c) /\ Failed(calls[c])) => FailureNormalized(calls[c])

\* C2 witness: deleteProductTemplate returned {success: false,
\* error: {message: "not found"}} for a 404 envelope with that error.
C2_Witness ==
    \E c \in DOMAIN calls :
        /\ Returned(c)
        /\ calls[c].method = "deleteProductTemplate"
        /\ Code(calls[c]) = Num(404)
        /\ calls[c].ret = Obj(<< <<"success", Bool(FALSE)>>,
                                 <<"error", Obj(<< <<"message", Str("not found")>> >>)>> >>)

\* C3: whenever an endpoint method returns for an envelope with code >= 400,
\* the returned error field is a non-empty error object: not undefined, not
\* null and not {}.
C3_ErrorNeverEmpty ==
    \A c \in DOMAIN calls :
        (Returned(c) /\ Failed(calls[c]))
            => Get(calls[c].ret, "error") \notin {Undefined, Null, EmptyObj}

\* {offset, limit} as the caller supplied them (0 and 20 when omitted).
CallerPaging(call) ==
    Obj(<< <<"offset", Default(call.args[1], Num(0))>>,
           <<"limit", Default(call.args[2], Num(20))>> >>)

\* C4 as stated: a paginated method returns the envelope's paging field
\* verbatim when the envelope has one, and {offset, limit} of the caller's
\* arguments when it has none.
C4_PagingByPresence ==
    \A c \in DOMAIN calls :
        (Returned(c) /\ calls[c].method \in Paginated)
            => IF Get(calls[c].data, "paging") # Undefined
               THEN Get(calls[c].ret, "paging") = Get(calls[c].data, "paging")
               ELSE Get(calls[c].ret, "paging") = CallerPaging(calls[c])

\* C4 amended: a paginated method returns the envelope's paging field
\* (undefined when the envelope has none) when code is not >= 400, and
\* {offset, limit} of the caller's arguments when code >= 400, whether or
\* not the envelope has a paging field.
C4_PagingByCode ==
    \A c \in DOMAIN calls :
        (Returned(c) /\ calls[c].method \in Paginated)
            => IF Failed(calls[c])
               THEN Get(calls[c].ret, "paging") = CallerPaging(calls[c])
               ELSE Get(calls[c].ret, "paging") = Get(calls[c].data, "paging")

\* C4 witness: getOrders(1, 1, ...) got a 404 envelope that carries a paging
\* field and returned {offset: 1, limit: 1}.
C4_Witness ==
    \E c \in DOMAIN calls :
        /\ Returned(c)
        /\ calls[c].method = "getOrders"
        /\ calls[c].args[1] = Num(1) /\ calls[c].args[2] = Num(1)
        /\ Code(calls[c]) = Num(404)
        /\ Get(calls[c].data, "paging") # Undefined
        /\ Get(calls[c].ret, "paging") = Obj(<< <<"offset", Num(1)>>, <<"limit", Num(1)>> >>)

----------------------------------------------------------------------------

\* C5: a call whose fetch or response.json() rejected ends rejected, with no
\* return value and no parsed body; a call that returned has no fault and
\* returned from a parsed envelope; and the return value with the empty
\* payload in place of the result comes only from a code >= 400 envelope:
\* for any other envelope every payload field carries the result.
C5_FaultsPropagate ==
    \A c \in DOMAIN calls :
        /\ calls[c].fault \in {"fetch", "json"}
              => /\ calls[c].pc = "rejected"
                 /\ calls[c].ret = Undefined
                 /\ calls[c].data = Undefined
        /\ Returned(c)
              => /\ calls[c].fault = ""
                 /\ Tag(calls[c].data) = "obj"
                 /\ Tag(calls[c].ret) = "obj"
        /\ (Returned(c) /\ ~Failed(calls[c]))
              => \A i \in 1..Len(PayloadFields(calls[c].method)) :
                    LET f == PayloadFields(calls[c].method)[i]
                    IN  Get(calls[c].ret, f[1]) = SubResult(calls[c].data, f[2])

\* C5 witness: a call rejected because response.json() rejected.
C5_Witness ==
    \E c \in DOMAIN calls :
        calls[c].pc = "rejected" /\ calls[c].fault = "json"

\* C6: every call that has been made has sent exactly one request, at every
\* point up to and including its return or its fault; a slot with no call
\* has sent none.
C6_OneRequest ==
    \A c \in DOMAIN calls :
        IF calls[c].pc = "idle"
        THEN calls[c].sent = 0
        ELSE calls[c].sent = 1 /\ calls[c].req # NoRequest

\* C6 witness: a call returned for a code >= 400 envelope, one request sent.
C6_Witness ==
    \E c \in DOMAIN calls :
        Returned(c) /\ Failed(calls[c]) /\ calls[c].sent = 1

\* The part of a URL before its query string.
RECURSIVE PathEnd(_, _)
PathEnd(url, i) ==
    IF i > Len(url) \/ CharAt(url, i) = "?" THEN i - 1 ELSE PathEnd(url, i + 1)

PathOf(url) == SubSeq(url, 1, PathEnd(url, 1))

\* The segments of s between its "/" characters.
RECURSIVE Segments(_, _, _)
Segments(s, i, cur) ==
    IF i > Len(s) THEN {cur}
    ELSE IF CharAt(s, i) = "/" THEN {cur} \cup Segments(s, i + 1, "")
    ELSE Segments(s, i + 1, cur \o CharAt(s, i))

PathSegments(url) == Segments(PathOf(url), 1, "")

IdMethods ==
    {"getSyncProduct", "deleteSyncProduct", "modifySyncProduct", "getSyncVariant",
     "deleteSyncVariant", "modifySyncVariant", "createSyncVariant",
     "getProductTemplate", "deleteProductTemplate"}

\* The text of an id: the decimal digits of a number, the string itself.
IdText(id) == IF Tag(id) = "num" THEN NumText(id[2]) ELSE id[2]

\* C7: for every method that takes an id, the id the caller supplied is a
\* path segment of the request URL.
C7_IdInPath ==
    \A c \in Made :
        calls[c].method \in IdMethods
            => IdText(calls[c].args[1]) \in PathSegments(calls[c].req.url)

\* The optional query parameters of a method: argument position and name.
OptionalParams(m) ==
    CASE m = "getSyncProducts" -> << <<3, "category_id">> >>
      [] m = "getOrders"       -> << <<3, "status">> >>
      [] m \in {"getProductVariantPrintFiles", "getLayoutTemplates"}
                               -> << <<2, "orientation">>, <<3, "technique">> >>
      [] OTHER                 -> <<>>

\* C8: an optional query parameter the caller left empty or undefined does
\* not occur in the request URL.
C8_EmptyParamOmitted ==
    \A c \in Made :
        \A i \in 1..Len(OptionalParams(calls[c].method)) :
            LET p == OptionalParams(calls[c].method)[i]
            IN  calls[c].args[p[1]] \in {Undefined, Str("")}
                    => ~Contains(calls[c].req.url, p[2] \o "=")

\* The JSON text of each order of Orders, written out.
OrderJson(order) ==
    IF order = Obj(<< <<"external_id", Str("o1")>> >>)
    THEN "{\"external_id\":\"o1\"}"
    ELSE "{\"recipient\":{\"name\":\"A B\"},\"items\":[{\"sync_variant_id\":1,\"quantity\":2}]}"

FlagText(flag) == IF flag = Bool(TRUE) THEN "true" ELSE "false"

\* C9: createOrder(order, confirm, update_existing) sends one POST request
\* to <origin>/orders?confirm=<confirm>&update_existing=<update_existing>
\* whose body is the JSON text of order; an omitted flag is sent as false.
C9_CreateOrderRequest ==
    \A c \in Made :
        calls[c].method = "createOrder"
            => /\ calls[c].sent = 1
               /\ calls[c].req.method = "POST"
               /\ calls[c].req.url =
                     "https://api.printful.com/orders?confirm=" \o FlagText(calls[c].args[2])
                     \o "&update_existing=" \o FlagText(calls[c].args[3])
               /\ calls[c].req.body = Str(OrderJson(calls[c].args[1]))

\* C9 witness: createOrder(order, true, false) has sent its request, with
\* confirm=true&update_existing=false in the URL.
C9_Witness ==
    \E c \in Made :
        /\ calls[c].method = "createOrder"
        /\ calls[c].args[2] = Bool(TRUE) /\ calls[c].args[3] = Bool(FALSE)
        /\ calls[c].req.url =
              "https://api.printful.com/orders?confirm=true&update_existing=false"
        /\ calls[c].req.body = Str("{\"external_id\":\"o1\"}")

\* The token of the Authorization header: the constructor's string, empty
\* for undefined.
TokenText == IF auth = Undefined THEN "" ELSE auth[2]

RequestsAuthorized ==
    \A c \in Made :
        /\ calls[c].req.headers = Obj(<< <<"Authorization", Str("Bearer " \o TokenText)>> >>)
        /\ SubSeq(calls[c].req.url, 1, Len("https://api.printful.com/"))
              = "https://api.printful.com/"

----------------------------------------------------------------------------
(* The diverging cases of C1, C3, C7 and C8 *)

\* C1 divergence: createOrder returned for a 200 envelope that carries a
\* result and no error field, and its error field is undefined, not {}.
C1_Divergence ==
    \E c \in DOMAIN calls :
        /\ Returned(c)
        /\ calls[c].method = "createOrder"
        /\ Code(calls[c]) = Num(200)
        /\ Get(calls[c].data, "result") # Undefined
        /\ Get(calls[c].data, "error") = Undefined
        /\ Get(calls[c].ret, "order") = Get(calls[c].data, "result")
        /\ Get(calls[c].ret, "error") = Undefined

\* C3 divergence: getSyncVariant returned {variant: {}, error: undefined}
\* for the envelope {code: 404}.
C3_Divergence ==
    \E c \in DOMAIN calls :
        /\ Returned(c)
        /\ calls[c].method = "getSyncVariant"
        /\ calls[c].data = Obj(<< <<"code", Num(404)>> >>)
        /\ calls[c].ret = Obj(<< <<"variant", EmptyObj>>, <<"error", Undefined>> >>)

\* C7 divergence: createSyncVariant(1, v) requested
\* <origin>/store/products/[object Object]/variants.
C7_Divergence ==
    \E c \in Made :
        /\ calls[c].method = "createSyncVariant"
        /\ calls[c].args[1] = Num(1)
        /\ calls[c].req.url = "https://api.printful.com/store/products/[object Object]/variants"

\* C8 divergence: getOrders() without a status requested
\* <origin>/orders?offset=0&limit=20&status=undefined.
C8_Divergence ==
    \E c \in Made :
        /\ calls[c].method = "getOrders"
        /\ calls[c].args = <<Undefined, Undefined, Undefined>>
        /\ calls[c].req.url = "https://api.printful.com/orders?offset=0&limit=20&status=undefined"

----------------------------------------------------------------------------
(* One caller with two calls in flight on the same client *)

Concurrent == {"c1", "c2"}

\* The answers of the remote service to the concurrent calls: a page of
\* results, an object, a 404 with its error, a 400 that carries paging.
ConcBodies ==
    {Envelope(Num(200), Arr(<< Obj(<< <<"id", Num(1)>> >>) >>), Undefined,
              Obj(<< <<"offset", Num(0)>>, <<"limit", Num(20)>>, <<"total", Num(1)>> >>)),
     Envelope(Num(200), Obj(<< <<"id", Num(1)>> >>), Undefined, Undefined),
     Envelope(Num(404), Undefined, Obj(<< <<"message", Str("not found")>> >>), Undefined),
     Envelope(Num(400), Undefined, Obj(<< <<"message", Str("bad request")>> >>),
              Obj(<< <<"offset", Num(0)>>, <<"limit", Num(20)>>, <<"total", Num(1)>> >>))}

InitConc ==
    /\ auth \in Tokens
    /\ origin = PrintfulAcountClient(auth).origin
    /\ headers = PrintfulAcountClient(auth).headers
    /\ mockup = MockupGeneratorAPI(PrintfulAcountClient(auth).headers,
                                   PrintfulAcountClient(auth).origin)
    /\ calls = [c \in Concurrent |-> Idle]

\* getSyncProducts(offset, limit) called while the other slot may hold a call.
Conc_getSyncProducts(c) ==
    \E offset \in Offsets, limit \in Limits :
        /\ Free(c)
        /\ calls' = [calls EXCEPT ![c] =
                        Invoked("getSyncProducts", <<offset, limit, Undefined>>)]
        /\ UNCHANGED <<auth, origin, headers, mockup>>

\* modifySyncProduct(id, p, vs) called while the other slot may hold a call.
Conc_modifySyncProduct(c) ==
    \E id \in Ids, sync_product \in Products :
        /\ Free(c)
        /\ calls' = [calls EXCEPT ![c] =
                        Invoked("modifySyncProduct", <<id, sync_product, EmptyArr>>)]
        /\ UNCHANGED <<auth, origin, headers, mockup>>

\* await response.json() resolves for one of the two calls.
Conc_JsonResolve(c) ==
    /\ calls[c].pc = "json"
    /\ \E data \in ConcBodies :
          calls' = [calls EXCEPT ![c].pc = "parsed", ![c].data = data]
    /\ UNCHANGED <<auth, origin, headers, mockup>>

NextConc ==
    \E c \in Concurrent :
    \/ Conc_getSyncProducts(c)
    \/ Conc_modifySyncProduct(c)
    \/ FetchResolve(c)
    \/ FetchReject(c)
    \/ Conc_JsonResolve(c)
    \/ JsonReject(c)
    \/ Resume(c)
    \/ Await(c)

SpecConc == InitConc /\ [][NextConc]_vars

InFlight(c) == calls[c].pc \in {"fetch", "json", "parsed"}

\* The return value a call owes to its own envelope and its own arguments:
\* on code >= 400 the empty payload, the envelope's error and, for a
\* paginated method, the caller's {offset, limit}; otherwise the result, {}
\* and the envelope's paging.
OwnNormalization(call) ==
    IF Failed(call)
    THEN /\ FailureNormalized(call)
         /\ call.method \in Paginated => Get(call.ret, "paging") = CallerPaging(call)
    ELSE /\ SuccessNormalized(call)
         /\ call.method \in Paginated
               => Get(call.ret, "paging") = Get(call.data, "paging")

\* The request a call owes to its own arguments.
OwnRequest(call) ==
    IF call.method = "getSyncProducts"
    THEN /\ call.req.method = "GET"
         /\ call.req.url = "https://api.printful.com/store/products?offset="
                \o IdText(Default(call.args[1], Num(0)))
                \o "&limit=" \o IdText(Default(call.args[2], Num(20)))
    ELSE /\ call.req.method = "PUT"
         /\ call.req.url = "https://api.printful.com/store/products/"
                \o IdText(call.args[1])

\* Each call is independent of the other: its request and return value are
\* those of its own arguments and envelope, and its next step can be taken
\* whatever the other call's state is.
CallsIndependent ==
    \A c \in DOMAIN calls :
        /\ c \in Made => OwnRequest(calls[c])
        /\ Returned(c) => OwnNormalization(calls[c])
        /\ calls[c].pc = "fetch"  => ENABLED FetchResolve(c)
        /\ calls[c].pc = "json"   => ENABLED Conc_JsonResolve(c)
        /\ calls[c].pc = "parsed" => ENABLED Resume(c)

\* C11: with several calls in flight at once, under every interleaving each
\* call sends the request of its own arguments and returns the
\* normalization of its own envelope and arguments, no step of one call
\* changes the other call, and a call's next step never waits for the other.
C11_Independent ==
    /\ []CallsIndependent
    /\ [][\A c \in DOMAIN calls :
             calls'[c] # calls[c] => \A d \in DOMAIN calls \ {c} : calls'[d] = calls[d]]_vars

\* C11 witness: getSyncProducts(1, 1) is still in flight, its envelope
\* parsed, while modifySyncProduct has returned from a different envelope.
C11_Witness ==
    /\ calls["c1"].method = "getSyncProducts"
    /\ calls["c1"].args = <<Num(1), Num(1), Undefined>>
    /\ calls["c1"].pc = "parsed"
    /\ Code(calls["c1"]) = Num(400)
    /\ calls["c2"].method = "modifySyncProduct"
    /\ Returned("c2")
    /\ Code(calls["c2"]) = Num(200)
    /\ Get(calls["c2"].ret, "product") = Obj(<< <<"id", Num(1)>> >>)

----------------------------------------------------------------------------
(* A read endpoint called twice with the same arguments, the remote service
   answering the same envelope both times *)

Repeated == {"c1", "c2"}

ReadMethods ==
    {"getSyncProducts", "getSyncProduct", "getSyncVariant", "getProductTemplates",
     "getProductTemplate", "getOrders", "getProductVariantPrintFiles",
     "getMockupTaskResult", "getLayoutTemplates"}

HasSettled(c) == calls[c].pc \in {"returned", "rejected"}

InitRepeat ==
    /\ auth \in Tokens
    /\ origin = PrintfulAcountClient(auth).origin
    /\ headers = PrintfulAcountClient(auth).headers
    /\ mockup = MockupGeneratorAPI(PrintfulAcountClient(auth).headers,
                                   PrintfulAcountClient(auth).origin)
    /\ calls = [c \in Repeated |-> Idle]

\* The caller makes the call of slot c1 again, with the same arguments, once
\* the first call has settled on a parsed body.
Repeat ==
    /\ HasSettled("c1")
    /\ calls["c1"].data # Undefined
    /\ Free("c2")
    /\ calls' = [calls EXCEPT !["c2"] = Invoked(calls["c1"].method, calls["c1"].args)]
    /\ UNCHANGED <<auth, origin, headers, mockup>>

\* await response.json() of the second call resolves with the body the
\* first call got: the remote state is unchanged.
SameAnswer ==
    /\ calls["c2"].pc = "json"
    /\ calls' = [calls EXCEPT !["c2"].pc = "parsed", !["c2"].data = calls["c1"].data]
    /\ UNCHANGED <<auth, origin, headers, mockup>>

NextRepeat ==
    \/ Call_getSyncProducts("c1")
    \/ Call_getSyncProduct("c1")
    \/ Call_getSyncVariant("c1")
    \/ Call_getProductTemplates("c1")
    \/ Call_getProductTemplate("c1")
    \/ Call_getOrders("c1")
    \/ Call_getProductVariantPrintFiles("c1")
    \/ Call_getMockupTaskResult("c1")
    \/ Call_getLayoutTemplates("c1")
    \/ JsonResolve("c1")
    \/ Repeat
    \/ SameAnswer
    \/ \E c \in Repeated : FetchResolve(c)
    \/ \E c \in Repeated : Resume(c)

SpecRepeat == InitRepeat /\ [][NextRepeat]_vars

----------------------------------------------------------------------------
(* A success envelope without a result *)

\* The methods that unwrap a sub-field of result with a destructuring.
Unwrapping == {"getSyncProduct", "getProductTemplates", "deleteProductTemplate"}

\* The call got a parsed envelope that takes the success branch (a code
\* below 400 or no code) and has no result field.
ResultMissing(call) ==
    /\ call.pc \in {"returned", "rejected"}
    /\ Tag(call.data) = "obj"
    /\ ~Failed(call)
    /\ Get(call.data, "result") = Undefined

\* C13: on a success-branch envelope with no result field, getSyncProduct,
\* getProductTemplates and deleteProductTemplate end in a rejection (a
\* TypeError raised by the destructuring, no return value); every other
\* method returns, with each payload field undefined.
C13_MissingResult ==
    \A c \in Made :
        ResultMissing(calls[c]) =>
            IF calls[c].method \in Unwrapping
            THEN /\ calls[c].pc = "rejected"
                 /\ calls[c].fault = "TypeError"
                 /\ calls[c].ret = Undefined
            ELSE /\ calls[c].pc = "returned"
                 /\ \A i \in DOMAIN PayloadFields(calls[c].method) :
                        Get(calls[c].ret, PayloadFields(calls[c].method)[i][1]) = Undefined

\* C13 witness: getSyncProduct rejected with a TypeError on an envelope that
\* has a code of 200 and no result.
C13_Witness ==
    \E c \in Made :
        /\ calls[c].method = "getSyncProduct"
        /\ Code(calls[c]) = Num(200)
        /\ ResultMissing(calls[c])
        /\ calls[c].pc = "rejected"
        /\ calls[c].fault = "TypeError"

====
